---- MODULE Spec2Model ----
(***************************************************************************)
(* Model of the Tetris session of src/src/components/Tetris.tsx.           *)
(*                                                                         *)
(* The React state cells (board, position, tetromino, tetrominoType,       *)
(* score, gameOver, isPaused, speed) are the variables: they hold the      *)
(* values of the last render, which are the values every handler's         *)
(* closures read.  A handler only queues updates.  The updates of a key or *)
(* button handler are rendered before the next event is delivered, and the *)
(* render is part of the handler's action.  The updates of the interval    *)
(* callback are rendered in a later task: they wait in `pending`, and a    *)
(* key pressed before the render runs on the closures of the render before *)
(* the tick and adds its update after the tick's.  What a second key       *)
(* pressed before that render reads depends on whether the first key's     *)
(* update has been rendered by itself, which is the scheduler's choice;    *)
(* one key is modelled.  The one handler that need not return, the hard    *)
(* drop loop of line 190, is modelled step by step with a program counter. *)
(*                                                                         *)
(* Source indices are 0-based, TLA+ sequences 1-based: the source's        *)
(* board[y][x] is board[y + 1][x + 1] here, and likewise for shapes.       *)
(***************************************************************************)
EXTENDS Integers, Sequences, FiniteSets, TLC

VARIABLES
    board,            \* useState(createEmptyBoard())          line 56
    position,         \* useState({x: 4, y: 0})                line 57
    tetromino,        \* useState(TETROMINOES.I)               line 58
    tetrominoType,    \* useState('I')                         line 59
    score,            \* useState(0)                           line 60
    gameOver,         \* useState(false)                       line 61
    isPaused,         \* useState(false)                       line 62
    speed,            \* useState(INITIAL_SPEED)               line 63
    pc,               \* where the key handler stands: "idle", or inside the
                      \* loop of line 190 ("hd_test": about to call moveDown,
                      \* "hd_body": in the empty loop body)
    queuedPosition,   \* setPosition updates queued by the loop of line 190
                      \* and not yet rendered: <<>> or <<newPos>>
    pending,          \* the interval callback's updates that are queued and
                      \* not yet rendered, with the update of the key pressed
                      \* since: <<>>, or <<the values the render will show>>
                      \* followed by that key
    drawn,            \* number of getRandomTetromino results rendered so far
    probe             \* arguments and results of the calls made by the
                      \* function specification SpecFn

vars == <<board, position, tetromino, tetrominoType, score, gameOver,
          isPaused, speed, pc, queuedPosition, pending, drawn, probe>>

game == <<board, position, tetromino, tetrominoType, score, speed>>

(***************************************************************************)
(* Program constants                                                       *)
(***************************************************************************)
BOARD_WIDTH == 10
BOARD_HEIGHT == 20
INITIAL_SPEED == 800
MIN_SPEED == 100
SPEED_STEP == 10
SPAWN_X == 4
SPAWN_Y == 0

(***************************************************************************)
(* Bounds of the model                                                     *)
(***************************************************************************)
\* getRandomTetromino calls (spawns after a lock, and resets) in one run
MaxDraws == 1
\* applications of the rotation transform in SpecFn
MaxRotations == 4
\* how far outside the grid the origins probed in SpecFn reach
ProbeMargin == 2

(***************************************************************************)
(* Shape catalog                                                           *)
(***************************************************************************)
Kinds == {"I", "O", "T", "L", "J", "S", "Z"}

TETROMINOES ==
    [k \in Kinds |->
        CASE k = "I" -> << <<1, 1, 1, 1>> >>
          [] k = "O" -> << <<1, 1>>,
                           <<1, 1>> >>
          [] k = "T" -> << <<0, 1, 0>>,
                           <<1, 1, 1>> >>
          [] k = "L" -> << <<1, 0>>,
                           <<1, 0>>,
                           <<1, 1>> >>
          [] k = "J" -> << <<0, 1>>,
                           <<0, 1>>,
                           <<1, 1>> >>
          [] k = "S" -> << <<0, 1, 1>>,
                           <<1, 1, 0>> >>
          [] k = "Z" -> << <<1, 1, 0>>,
                           <<0, 1, 1>> >> ]

(***************************************************************************)
(* Board                                                                   *)
(***************************************************************************)
EmptyRow == [x \in 1..BOARD_WIDTH |-> 0]

\* Array(BOARD_HEIGHT).fill(Array(BOARD_WIDTH).fill(0)).  The rows are one
\* shared array; mergeTetromino copies every row before writing, so the
\* sharing is never observed.
createEmptyBoard == [y \in 1..BOARD_HEIGHT |-> EmptyRow]

\* newBoard[y].every((cell) => cell): false at a 0 and at an undefined cell
\* (-2); an empty slot (-1) is not visited.
every(row) == \A x \in 1..Len(row) : row[x] \notin {0, -2}

(***************************************************************************)
(* Collision and rotation                                                  *)
(***************************************************************************)
\* The off-by-one variant of isColliding that treats column 0 as the wall.
isCollidingLeftWall(pos, shape, b) ==
    \E y \in 0..(Len(shape) - 1) : \E x \in 0..(Len(shape[y + 1]) - 1) :
        /\ shape[y + 1][x + 1] # 0
        /\ LET newX == pos.x + x
               newY == pos.y + y
           IN  \/ newX <= 0
               \/ newX >= BOARD_WIDTH
               \/ newY >= BOARD_HEIGHT
               \/ (newY >= 0 /\ b[newY + 1][newX + 1] # 0)

\* isColliding(pos, shape = tetromino), with the board its closure captured.
\* The loops return true at the first set cell that is out of the grid or on
\* an occupied cell, and false when there is none.
isColliding(pos, shape, b) ==
    \E y \in 0..(Len(shape) - 1) : \E x \in 0..(Len(shape[y + 1]) - 1) :
        /\ shape[y + 1][x + 1] # 0
        /\ LET newX == pos.x + x
               newY == pos.y + y
           IN  \/ newX < 0
               \/ newX >= BOARD_WIDTH
               \/ newY >= BOARD_HEIGHT
               \/ (newY >= 0 /\ b[newY + 1][newX + 1] # 0)

\* The half-turn variant of rotated: rows and cells reversed, no transpose.
rotatedHalfTurn(shape) ==
    [i \in 1..Len(shape) |->
        [j \in 1..Len(shape[1]) |->
            shape[Len(shape) - i + 1][Len(shape[1]) - j + 1]]]

\* tetromino[0].map((_, i) => tetromino.map((row) => row[i]).reverse())
\* Row i of the result is column i of the shape read bottom to top.
rotated(shape) ==
    [i \in 1..Len(shape[1]) |->
        [j \in 1..Len(shape) |-> shape[Len(shape) - j + 1][i]]]

RECURSIVE rotatedTimes(_, _)
\* n successive applications of the rotation transform
rotatedTimes(shape, n) ==
    IF n = 0 THEN shape ELSE rotatedTimes(rotated(shape), n - 1)

(***************************************************************************)
(* Lock: merge, line clearing, scoring (mergeTetromino)                    *)
(***************************************************************************)
\* The set cells of the shape, as <<y, x>> offsets (0-based, as the source).
SetCells(shape) ==
    {c \in (0..(Len(shape) - 1)) \X (0..(Len(shape[1]) - 1)) :
        shape[c[1] + 1][c[2] + 1] # 0}

\* Lines 139-142: a set cell with boardY < 0 sets gameOver and returns
\* before setBoard, so nothing else is committed.
topsOut(pos, shape) == \E c \in SetCells(shape) : pos.y + c[1] < 0

\* Line 144: newBoard[boardY][boardX] = 1 with boardY >= 20 reads a row that
\* does not exist and throws a TypeError; mergeTetromino is left before any
\* setter is called.
mergeThrows(pos, shape) ==
    \E c \in SetCells(shape) : pos.y + c[1] >= BOARD_HEIGHT

\* [...row], line 134: the copy of a row.  Spreading reads an empty slot (-1)
\* as undefined (-2).  Only a row that a write has lengthened has such slots.
copyRow(row) ==
    IF Len(row) = BOARD_WIDTH
    THEN row
    ELSE [xx \in 1..Len(row) |-> IF row[xx] = -1 THEN -2 ELSE row[xx]]

\* Lines 134-146: the copy of the board with the piece's set cells written 1.
\* A write right of the row's last cell lengthens the row, and the slots the
\* write skips are empty slots (-1).  A write left of column 0 sets a
\* property that is no cell of the row.
mergedBoard(b, pos, shape) ==
    [yy \in 1..BOARD_HEIGHT |->
        IF yy - 1 - pos.y \notin 0..(Len(shape) - 1)
        THEN copyRow(b[yy])
        ELSE LET mask == shape[yy - pos.y]
                 last == CHOOSE xx \in 0..Len(mask) :
                            /\ xx > 0 => mask[xx] # 0
                            /\ \A zz \in (xx + 1)..Len(mask) : mask[zz] = 0
                 len == IF last > 0 /\ pos.x + last > Len(b[yy])
                        THEN pos.x + last
                        ELSE Len(b[yy])
             IN  [xx \in 1..len |->
                     IF xx - pos.x \in 1..Len(mask) /\ mask[xx - pos.x] # 0
                     THEN 1
                     ELSE IF xx <= Len(b[yy]) THEN copyRow(b[yy])[xx]
                     ELSE -1]]

\* The variant that empties row y where it is, moving no row.
spliceInPlace(b, y) == [b EXCEPT ![y + 1] = EmptyRow]

\* newBoard.splice(y, 1); newBoard.unshift(Array(BOARD_WIDTH).fill(0))
spliceUnshift(b, y) ==
    <<EmptyRow>> \o SubSeq(b, 1, y) \o SubSeq(b, y + 2, Len(b))

RECURSIVE clearLines(_, _, _)
\* Lines 150-157: for (let y = BOARD_HEIGHT - 1; y >= 0; y--), from index y
\* with n lines counted so far.  After a removal the loop still decrements
\* y, so the row that moved down into index y is not looked at.
clearLines(b, y, n) ==
    IF y < 0
    THEN [board |-> b, completedLines |-> n]
    ELSE IF every(b[y + 1])
         THEN clearLines(spliceUnshift(b, y), y - 1, n + 1)
         ELSE clearLines(b, y - 1, n)

\* [0, 100, 300, 500, 800][completedLines]
points(completedLines) == <<0, 100, 300, 500, 800>>[completedLines + 1]

\* The speed update without its floor.
MaxUnfloored(a, b) == b

Max(a, b) == IF a >= b THEN a ELSE b

\* getRandomTetromino and the three setters of lines 73-76 (resetGame)
spawn(type) ==
    /\ tetromino' = TETROMINOES[type]
    /\ tetrominoType' = type
    /\ position' = [x |-> SPAWN_X, y |-> SPAWN_Y]
    /\ drawn' = drawn + 1

\* The values of the last render (lines 56-63), which the closures of every
\* handler hold; draws counts the getRandomTetromino results among queued
\* updates.
rendered ==
    [board |-> board, position |-> position, tetromino |-> tetromino,
     tetrominoType |-> tetrominoType, score |-> score, speed |-> speed,
     gameOver |-> gameOver, draws |-> 0]

\* mergeTetromino, lines 133-170: the updates it queues.  The score and
\* speed setters are given updaters, which the render applies to the values
\* it holds; no other handler changes those values before the render.
mergeTetromino ==
    IF topsOut(position, tetromino)
    THEN pending' = <<[rendered EXCEPT !.gameOver = TRUE]>>
    ELSE IF mergeThrows(position, tetromino)
    THEN UNCHANGED pending
    ELSE \E cleared \in {clearLines(mergedBoard(board, position, tetromino),
                                     BOARD_HEIGHT - 1, 0)} :
            \E type \in Kinds :
                pending' =
                  <<[board |-> cleared.board,
                     score |-> IF cleared.completedLines > 0
                               THEN score + points(cleared.completedLines)
                               ELSE score,
                     speed |-> IF cleared.completedLines > 0
                               THEN Max(MIN_SPEED, speed - SPEED_STEP)
                               ELSE speed,
                     tetromino |-> TETROMINOES[type],
                     tetrominoType |-> type,
                     position |-> [x |-> SPAWN_X, y |-> SPAWN_Y],
                     gameOver |-> gameOver,
                     draws |-> 1]>>

(***************************************************************************)
(* Moves                                                                   *)
(***************************************************************************)
\* newPos of moveDown, line 125
downPos == [position EXCEPT !.y = @ + 1]

\* The value moveDown returns (lines 126-130): true when one row lower is free.
moveDown == ~isColliding(downPos, tetromino, board)

\* moveHorizontal(delta), lines 114-122: the setPosition calls it makes.
moveHorizontal(delta) ==
    LET newPos == [position EXCEPT !.x = @ + delta]
    IN  IF ~isColliding(newPos, tetromino, board)
        THEN <<newPos>>
        ELSE <<>>

\* rotate, lines 105-112: the setTetromino calls it makes.
rotate ==
    IF ~isColliding(position, rotated(tetromino), board)
    THEN <<rotated(tetromino)>>
    ELSE <<>>

(***************************************************************************)
(* Handlers                                                                *)
(***************************************************************************)
Keys == {"ArrowLeft", "ArrowRight", "ArrowDown", "ArrowUp", " "}

\* if (gameOver || isPaused) return;   line 174
keysIgnored == gameOver \/ isPaused

\* The variant of the delay that leaves the pause out: !gameOver ? speed : null.
intervalArmedGameOverOnly == ~gameOver

\* The interval is armed with delay (!gameOver && !isPaused ? speed : null),
\* line 205; a null delay arms no timer.
intervalArmed == ~gameOver /\ ~isPaused

\* The interval callback, lines 199-206.  It reads the closures of the last
\* render, queues its updates and returns to the event loop; a callback that
\* throws queues nothing.  (A second callback before the render of the first
\* is not modelled: the interval is at least 100 ms.)
Tick ==
    /\ pc = "idle"
    /\ pending = <<>>
    /\ drawn < MaxDraws
    /\ intervalArmed
    /\ IF moveDown
       THEN pending' = <<[rendered EXCEPT !.position = downPos]>>
       ELSE mergeTetromino
    /\ UNCHANGED <<board, position, tetromino, tetrominoType, score, gameOver,
                   speed, isPaused, pc, queuedPosition, drawn, probe>>

\* The render of the interval callback's updates, and of the update the
\* key pressed since has added, in the order they were queued.
Render ==
    /\ pc = "idle"
    /\ pending # <<>>
    /\ board' = pending[1].board
    /\ position' = pending[1].position
    /\ tetromino' = pending[1].tetromino
    /\ tetrominoType' = pending[1].tetrominoType
    /\ score' = pending[1].score
    /\ speed' = pending[1].speed
    /\ gameOver' = pending[1].gameOver
    /\ drawn' = drawn + pending[1].draws
    /\ pending' = <<>>
    /\ UNCHANGED <<isPaused, pc, queuedPosition, probe>>

\* handleKeyPress, lines 173-193.  The handler and the functions it calls
\* read the closures of the last render.  With nothing pending its update is
\* rendered at once; with the interval callback's updates pending it is
\* queued behind them and replaces the value they set.  The space key enters
\* the loop of line 190.
handleKeyPress(key) ==
    /\ pc = "idle"
    /\ Len(pending) < 2
    /\ drawn < MaxDraws
    /\ IF keysIgnored
       THEN UNCHANGED vars
       ELSE LET setPosition ==
                    CASE key = "ArrowLeft" -> moveHorizontal(-1)
                      [] key = "ArrowRight" -> moveHorizontal(1)
                      [] key = "ArrowDown" ->
                            IF moveDown THEN <<downPos>> ELSE <<>>
                      [] OTHER -> <<>>
                setTetromino == IF key = "ArrowUp" THEN rotate ELSE <<>>
            IN  /\ IF pending = <<>>
                   THEN /\ position' = IF setPosition # <<>>
                                       THEN setPosition[1] ELSE position
                        /\ tetromino' = IF setTetromino # <<>>
                                        THEN setTetromino[1] ELSE tetromino
                        /\ UNCHANGED pending
                   ELSE /\ pending' =
                             <<[pending[1] EXCEPT
                                  !.position = IF setPosition # <<>>
                                               THEN setPosition[1] ELSE @,
                                  !.tetromino = IF setTetromino # <<>>
                                                THEN setTetromino[1] ELSE @],
                               key>>
                        /\ UNCHANGED <<position, tetromino>>
                /\ pc' = IF key = " " THEN "hd_test" ELSE pc
    /\ UNCHANGED <<board, tetrominoType, score, gameOver, isPaused, speed,
                   queuedPosition, drawn, probe>>

\* while (moveDown()) {}: the loop condition.  moveDown reads the position,
\* shape and board its closure captured when the handler was created; the
\* setPosition it calls only queues an update.  When it returns false the
\* handler returns and the render applies what was queued.
HardDropTest ==
    /\ pc = "hd_test"
    /\ drawn < MaxDraws
    /\ IF moveDown
       THEN /\ queuedPosition' = <<downPos>>
            /\ pc' = "hd_body"
            /\ UNCHANGED position
       ELSE /\ position' = IF queuedPosition # <<>> THEN queuedPosition[1]
                                                    ELSE position
            /\ queuedPosition' = <<>>
            /\ pc' = "idle"
    /\ UNCHANGED <<board, tetromino, tetrominoType, score, gameOver, isPaused,
                   speed, pending, drawn, probe>>

\* while (moveDown()) {}: the empty body, back to the condition.
HardDropBody ==
    /\ pc = "hd_body"
    /\ drawn < MaxDraws
    /\ pc' = "hd_test"
    /\ UNCHANGED <<board, position, tetromino, tetrominoType, score, gameOver,
                   isPaused, speed, queuedPosition, pending, drawn, probe>>

\* onClick={() => setIsPaused(!isPaused)}, line 258.  The click's update is
\* rendered at once.  Updates of the interval callback that are queued stay
\* queued: their render comes while the session already shows the pause.
TogglePause ==
    /\ pc = "idle"
    /\ drawn < MaxDraws
    /\ isPaused' = ~isPaused
    /\ UNCHANGED <<board, position, tetromino, tetrominoType, score, gameOver,
                   speed, pc, queuedPosition, pending, drawn, probe>>

\* resetGame, lines 71-80 (the Reset and Play Again buttons).  Its updates
\* are rendered at once.  They are values, and they are queued behind the
\* updates of the interval callback that wait for their render, so that
\* render shows the values of the reset again.
resetGame ==
    /\ pc = "idle"
    /\ drawn < MaxDraws
    /\ board' = createEmptyBoard
    /\ \E type \in Kinds : spawn(type)
    /\ score' = 0
    /\ gameOver' = FALSE
    /\ speed' = INITIAL_SPEED
    /\ pending' = IF pending = <<>> THEN <<>>
                  ELSE <<rendered'>> \o Tail(pending)
    /\ UNCHANGED <<isPaused, pc, queuedPosition, probe>>

(***************************************************************************)
(* The session from construction                                           *)
(***************************************************************************)
NoProbe == [pos |-> [x |-> 0, y |-> 0], ret |-> "none", n |-> 0]

Init ==
    /\ board = createEmptyBoard
    /\ position = [x |-> SPAWN_X, y |-> SPAWN_Y]
    /\ tetromino = TETROMINOES["I"]
    /\ tetrominoType = "I"
    /\ score = 0
    /\ gameOver = FALSE
    /\ isPaused = FALSE
    /\ speed = INITIAL_SPEED
    /\ pc = "idle"
    /\ queuedPosition = <<>>
    /\ pending = <<>>
    /\ drawn = 0
    /\ probe = NoProbe

Next ==
    \/ Tick
    \/ Render
    \/ \E key \in Keys : handleKeyPress(key)
    \/ HardDropTest
    \/ HardDropBody
    \/ TogglePause
    \/ resetGame

Spec == Init /\ [][Next]_vars

\* The JavaScript engine runs a handler that has started until it returns.
FairSpec == Spec /\ WF_vars(HardDropTest) /\ WF_vars(HardDropBody)

\* Gravity, the Pause button and the keys that move the piece left and down.
NextPause ==
    \/ Tick
    \/ Render
    \/ TogglePause
    \/ \E key \in {"ArrowLeft", "ArrowDown"} : handleKeyPress(key)

SpecPause == Init /\ [][NextPause]_vars

(***************************************************************************)
(* Locks on mid-game boards                                                *)
(*                                                                         *)
(* Boards a session reaches by stacking pieces, each with a piece the      *)
(* player has rotated and moved along the empty top rows, or with a piece  *)
(* that was just spawned on a stack that reaches the top.  Gravity then    *)
(* takes the piece down and locks it.                                      *)
(***************************************************************************)
\* The board whose rows `rows` are occupied except at the columns `gaps`.
FilledRows(rows, gaps) ==
    [yy \in 1..BOARD_HEIGHT |->
        [xx \in 1..BOARD_WIDTH |->
            IF (yy - 1) \in rows /\ (xx - 1) \notin gaps THEN 1 ELSE 0]]

\* Boards whose top rows are empty:
\*   the empty board;
\*   rows 16-19 with column 0 open       (nine upright I pieces);
\*   rows 16-19 with column 4 open       (nine upright I pieces);
\*   rows 18-19 with columns 4-5 open    (four O pieces);
\*   rows 18-19 with columns 0-1 open    (four O pieces);
\*   row 19 with columns 4-5 open        (two flat I pieces).
OpenBoards ==
    { createEmptyBoard,
      FilledRows(16..19, {0}),
      FilledRows(16..19, {4}),
      FilledRows(18..19, {4, 5}),
      FilledRows(18..19, {0, 1}),
      FilledRows({19}, {4, 5}) }

\* Columns 4-5 stacked with O pieces: nine of them (rows 2-19) and ten
\* (rows 0-19, the tenth locked where it spawned).
TallBoards ==
    { FilledRows(2..19, (0..3) \cup (6..9)),
      FilledRows(0..19, (0..3) \cup (6..9)) }

\* Score and interval after no clearing lock, and after seventy single-line
\* locks (800 - 70 * 10 = 100).
ScoreSpeeds == { <<0, INITIAL_SPEED>>, <<7000, MIN_SPEED>> }

InitLock ==
    /\ \/ /\ board \in OpenBoards
          /\ tetrominoType \in Kinds
          /\ \E r \in 0..3 :
                tetromino = rotatedTimes(TETROMINOES[tetrominoType], r)
          /\ \E x \in 0..(BOARD_WIDTH - 1) :
                position = [x |-> x, y |-> SPAWN_Y]
          /\ ~isColliding(position, tetromino, board)
       \/ /\ board \in TallBoards
          /\ tetrominoType \in Kinds
          /\ tetromino = TETROMINOES[tetrominoType]
          /\ position = [x |-> SPAWN_X, y |-> SPAWN_Y]
    /\ \E ss \in ScoreSpeeds : score = ss[1] /\ speed = ss[2]
    /\ gameOver = FALSE
    /\ isPaused = FALSE
    /\ pc = "idle"
    /\ queuedPosition = <<>>
    /\ pending = <<>>
    /\ drawn = 0
    /\ probe = NoProbe

NextLock == Tick \/ Render

SpecLock == InitLock /\ [][NextLock]_vars

(***************************************************************************)
(* The pure functions applied to drawn inputs                              *)
(***************************************************************************)
ProbeBoards == OpenBoards \cup TallBoards

InitFn ==
    /\ board \in ProbeBoards
    /\ tetrominoType \in Kinds
    /\ tetromino = TETROMINOES[tetrominoType]
    /\ probe \in [pos : [x : (0 - ProbeMargin)..(BOARD_WIDTH + ProbeMargin - 1),
                         y : (0 - ProbeMargin)..(BOARD_HEIGHT + ProbeMargin - 1)],
                  ret : {"none"},
                  n : {0}]
    /\ position = [x |-> SPAWN_X, y |-> SPAWN_Y]
    /\ score = 0
    /\ gameOver = FALSE
    /\ isPaused = FALSE
    /\ speed = INITIAL_SPEED
    /\ pc = "idle"
    /\ queuedPosition = <<>>
    /\ pending = <<>>
    /\ drawn = 0

\* ret := isColliding(pos, tetromino) on the drawn board
CallIsColliding ==
    /\ probe.ret = "none"
    /\ probe' = [probe EXCEPT !.ret =
                    IF isColliding(probe.pos, tetromino, board)
                    THEN "true" ELSE "false"]
    /\ UNCHANGED <<board, position, tetromino, tetrominoType, score, gameOver,
                   isPaused, speed, pc, queuedPosition, pending, drawn>>

\* tetromino := the rotated mask, counted in probe.n
CallRotated ==
    /\ probe.ret = "none"
    /\ probe.n < MaxRotations
    /\ tetromino' = rotated(tetromino)
    /\ probe' = [probe EXCEPT !.n = @ + 1]
    /\ UNCHANGED <<board, position, tetrominoType, score, gameOver,
                   isPaused, speed, pc, queuedPosition, pending, drawn>>

NextFn == CallIsColliding \/ CallRotated

SpecFn == InitFn /\ [][NextFn]_vars

(***************************************************************************)
(* Play on mid-game boards                                                 *)
(***************************************************************************)
\* A stack the player has to steer around: five O pieces, four making a
\* two-row floor with a gap at columns 4-5 and one on top of it at the right
\* wall.
StepBoard ==
    mergedBoard(FilledRows(18..19, {4, 5}), [x |-> 8, y |-> 16], TETROMINOES["O"])

InitMoves ==
    /\ board = StepBoard
    /\ tetrominoType \in Kinds
    /\ tetromino = TETROMINOES[tetrominoType]
    /\ position = [x |-> SPAWN_X, y |-> SPAWN_Y]
    /\ score = 0
    /\ speed = INITIAL_SPEED
    /\ gameOver = FALSE
    /\ isPaused = FALSE
    /\ pc = "idle"
    /\ queuedPosition = <<>>
    /\ pending = <<>>
    /\ drawn = 0
    /\ probe = NoProbe

\* Gravity and the four movement keys.
NextMoves ==
    \/ Tick
    \/ Render
    \/ \E key \in Keys \ {" "} : handleKeyPress(key)

SpecMoves == InitMoves /\ [][NextMoves]_vars

\* Gravity and the Reset button on the mid-game boards.
NextSession == Tick \/ Render \/ resetGame

SpecSession == InitLock /\ [][NextSession]_vars

(***************************************************************************)
(* Play after a key that ran before the render of a lock                   *)
(***************************************************************************)
\* An upright I piece stood at the right wall on the floor of the empty
\* board; the tick locked it and drew the next piece, ArrowLeft was pressed
\* before the render, and the render showed the next piece one column left
\* of where the I piece stood.
InitStale ==
    /\ board = mergedBoard(createEmptyBoard, [x |-> 9, y |-> 16],
                           rotated(TETROMINOES["I"]))
    /\ tetrominoType \in Kinds
    /\ tetromino = TETROMINOES[tetrominoType]
    /\ position = [x |-> 8, y |-> 16]
    /\ score = 0
    /\ speed = INITIAL_SPEED
    /\ gameOver = FALSE
    /\ isPaused = FALSE
    /\ pc = "idle"
    /\ queuedPosition = <<>>
    /\ pending = <<>>
    /\ drawn = 0
    /\ probe = NoProbe

SpecStale == InitStale /\ [][NextMoves]_vars

(***************************************************************************)
(* Properties                                                              *)
(***************************************************************************)
\* What the properties speak of, stated independently of the handlers.

\* The state of the session: the values the screen will show once what is
\* queued has been rendered.
Shown == IF pending = <<>> THEN rendered ELSE pending[1]

\* A tick whose move-down is illegal and whose merge is carried out: the
\* lock step.
LockStep == Tick /\ ~moveDown /\ pending' # <<>>

\* The rows of a board that are fully occupied.
FullRows(b) == {yy \in 1..BOARD_HEIGHT : \A xx \in 1..BOARD_WIDTH : b[yy][xx] = 1}

\* The board with every fully occupied row removed and as many empty rows
\* put on top.
RemoveFullRows(b) ==
    LET kept == SelectSeq(b, LAMBDA r : \E xx \in 1..BOARD_WIDTH : r[xx] # 1)
    IN  [i \in 1..(BOARD_HEIGHT - Len(kept)) |-> EmptyRow] \o kept

RECURSIVE LowestOrigin(_, _, _)
\* The lowest origin straight below pos at which the shape does not collide.
LowestOrigin(pos, shape, b) ==
    LET below == [pos EXCEPT !.y = @ + 1]
    IN  IF ~isColliding(below, shape, b) /\ below.y < BOARD_HEIGHT
        THEN LowestOrigin(below, shape, b)
        ELSE pos

\* Every set cell of the shape at pos is inside the columns, above the floor
\* and, when on the board, on an empty cell.
CellsFree(pos, shape, b) ==
    \A c \in SetCells(shape) :
        LET row == pos.y + c[1]
            col == pos.x + c[2]
        IN  /\ col >= 0
            /\ col < BOARD_WIDTH
            /\ row < BOARD_HEIGHT
            /\ (row >= 0 => b[row + 1][col + 1] = 0)

SpawnPosition == [x |-> SPAWN_X, y |-> SPAWN_Y]

\* Supporting fact: no handler ever reaches the top-out branch, because
\* position.y starts at 0 and only grows or returns to 0.
GameOverNeverSet == gameOver = FALSE /\ position.y >= 0

\* C1: after every lock the board contains no fully occupied row (every row
\* the locking piece completes, adjacent ones included, is cleared).
C1_NoFullRowAfterLock == FullRows(board) = {}

\* C2: the score a lock adds is score_table[k], k being the number of rows
\* that are full once the piece is merged: 0, 100, 300, 500, 800.
C2_ScoreByFullRows ==
    [][LockStep =>
        Shown'.score = score + <<0, 100, 300, 500, 800>>[
            Cardinality(FullRows(mergedBoard(board, position, tetromino))) + 1]
      ]_vars

\* C3: a hard drop that has started always returns.
C3_HardDropTerminates == (pc # "idle") ~> (pc = "idle")

\* C4: when the hard-drop command returns, the piece has been merged at the
\* lowest origin of its column, the full rows are cleared and scored, and a
\* new piece in base orientation stands at (4,0).
C4_HardDropLocksAtLowest ==
    [][(pc # "idle" /\ pc' = "idle") =>
        LET merged == mergedBoard(board,
                                  LowestOrigin(position, tetromino, board),
                                  tetromino)
        IN  /\ board' = RemoveFullRows(merged)
            /\ score' = score + <<0, 100, 300, 500, 800>>[
                            Cardinality(FullRows(merged)) + 1]
            /\ position' = SpawnPosition
            /\ \E k \in Kinds : tetromino' = TETROMINOES[k]
      ]_vars

\* C5: when the piece just spawned at (4,0) overlaps an occupied cell, the
\* next tick, whose move-down is illegal, ends the game.
C5_SpawnOverlapEndsGame ==
    [][(/\ position = SpawnPosition
        /\ tetromino = TETROMINOES[tetrominoType]
        /\ ~CellsFree(position, tetromino, board)
        /\ LockStep) => Shown'.gameOver
      ]_vars

\* C7: reset yields an empty board, score 0, interval 800, not over, not
\* paused, and a base-orientation piece at (4,0).
C7_ResetYieldsFreshSession ==
    [][resetGame =>
        /\ \A yy \in 1..BOARD_HEIGHT : \A xx \in 1..BOARD_WIDTH : board'[yy][xx] = 0
        /\ Len(board') = BOARD_HEIGHT
        /\ score' = 0
        /\ speed' = 800
        /\ gameOver' = FALSE
        /\ isPaused' = FALSE
        /\ position' = SpawnPosition
        /\ \E k \in Kinds : tetromino' = TETROMINOES[k]
      ]_vars

\* The board, piece, score and interval of the session.
ShownGame ==
    <<Shown.board, Shown.position, Shown.tetromino, Shown.tetrominoType,
      Shown.score, Shown.speed>>

\* C8: while paused no tick comes and no key command acts: every step
\* between two paused states leaves board, piece (kind, shape, origin),
\* score and interval of the session unchanged, and the values on screen
\* change at most by the render of a tick that came before the pause.
\* Pausing and resuming leave the session unchanged too, so the tick after
\* a resume acts on the preserved state.
C8_PausePreservesGame ==
    /\ [][(isPaused /\ isPaused') => ShownGame' = ShownGame]_vars
    /\ [][(isPaused /\ isPaused' /\ pending' = pending) => UNCHANGED game]_vars
    /\ [][TogglePause => ShownGame' = ShownGame /\ UNCHANGED game]_vars

\* A session paused between a tick and its render, the piece part of the
\* way down and commands still arriving.
C8_Witness ==
    /\ isPaused
    /\ pending # <<>>
    /\ position.y > 0
    /\ position.x # SPAWN_X
    /\ drawn < MaxDraws

\* C9: isColliding is false exactly when every set cell of the mask at the
\* origin is in columns [0,10), in a row < 20, and on an empty cell if its
\* row is >= 0; rows < 0 never collide by themselves.
C9_IsCollidingIffNotFree ==
    probe.ret # "none" =>
        ((probe.ret = "false") <=> CellsFree(probe.pos, tetromino, board))

\* A rotated piece straddling the top of a board with a stack, found free.
C9_Witness ==
    /\ probe.ret = "false"
    /\ probe.pos.y < 0
    /\ probe.n = 1
    /\ board # createEmptyBoard

\* C10: four rotations of a base mask give the base mask back cell for cell,
\* every rotation swaps width and height, and two rotations restore the
\* dimensions.
C10_RotationPeriodFour ==
    LET base == TETROMINOES[tetrominoType]
    IN  /\ probe.n % 4 = 0 => tetromino = base
        /\ Len(rotated(tetromino)) = Len(tetromino[1])
        /\ Len(rotated(tetromino)[1]) = Len(tetromino)
        /\ probe.n % 2 = 1 =>
              Len(tetromino) = Len(base[1]) /\ Len(tetromino[1]) = Len(base)
        /\ probe.n % 2 = 0 =>
              Len(tetromino) = Len(base) /\ Len(tetromino[1]) = Len(base[1])

\* The T piece after four rotations.
C10_Witness == probe.n = 4 /\ tetrominoType = "T" /\ tetromino = TETROMINOES["T"]

\* The board cells <<row, col>> (0-based) the shape covers at pos.
PieceCells(pos, shape) ==
    {<<pos.y + c[1], pos.x + c[2]>> : c \in SetCells(shape)}

\* A key command that is not ignored.
Command(key) == ~keysIgnored /\ handleKeyPress(key)

\* C11: Rotate replaces the shape by its rotated mask exactly when the
\* rotated mask does not collide at the current origin, and otherwise keeps
\* the shape; origin, board, score and interval never change (no wall kick).
C11_RotateIffFree ==
    [][Command("ArrowUp") =>
        /\ Shown'.tetromino =
              IF CellsFree(Shown.position, rotated(Shown.tetromino), Shown.board)
              THEN rotated(Shown.tetromino)
              ELSE Shown.tetromino
        /\ Shown'.position = Shown.position
        /\ Shown'.board = Shown.board
        /\ Shown'.score = Shown.score
        /\ Shown'.speed = Shown.speed
      ]_vars

\* The board with the given cells occupied.
Occupy(b, cells) ==
    [yy \in 1..BOARD_HEIGHT |->
        [xx \in 1..BOARD_WIDTH |->
            IF <<yy - 1, xx - 1>> \in cells THEN 1 ELSE b[yy][xx]]]

\* The board once the active piece is written into it where it stands.
Locked == Occupy(board, PieceCells(position, tetromino))

\* C12: a lock that produces exactly one full row r leaves an empty row at
\* index 0, the rows above r one index lower and the rows below r as they
\* were.
C12_SingleRowClear ==
    [][(LockStep /\ Cardinality(FullRows(Locked)) = 1) =>
        LET r == CHOOSE yy \in FullRows(Locked) : TRUE
        IN  /\ Shown'.board[1] = EmptyRow
            /\ \A yy \in 1..(r - 1) : Shown'.board[yy + 1] = Locked[yy]
            /\ \A yy \in (r + 1)..BOARD_HEIGHT : Shown'.board[yy] = Locked[yy]
      ]_vars

\* The O piece dropped into the gap of a full bottom row: the row is gone,
\* the piece's upper half has come down into it, and 100 points were added.
C12_Witness ==
    /\ drawn = 1
    /\ score = 100
    /\ board = FilledRows({19}, (0..3) \cup (6..9))

\* The board b with the rows of the set R taken out and as many empty rows
\* put on top.
WithoutRows(b, R) ==
    LET keep(i) == i \notin R
        idx == SelectSeq([i \in 1..BOARD_HEIGHT |-> i], keep)
    IN  [i \in 1..Cardinality(R) |-> EmptyRow] \o [i \in 1..Len(idx) |-> b[idx[i]]]

\* C14: a tick either moves the piece down by exactly one row and changes
\* nothing else (when one row lower is free), or locks it where it stands:
\* its cells become occupied, full rows are cleared and scored, and a
\* base-orientation piece stands at (4,0).  A piece that can still move down
\* is never locked.  So whenever a tick can come, the piece can move down or
\* stands where its cells can be written into the board.
C14_TickMovesOrLocks ==
    /\ []((intervalArmed /\ pc = "idle" /\ pending = <<>>) =>
            \/ CellsFree(downPos, tetromino, board)
            \/ \A c \in PieceCells(position, tetromino) : c[1] < BOARD_HEIGHT)
    /\ [][Tick =>
            IF CellsFree(downPos, tetromino, board)
            THEN Shown' = [rendered EXCEPT !.position =
                              [x |-> position.x, y |-> position.y + 1]]
            ELSE /\ Shown'.position = SpawnPosition
                 /\ Shown'.tetromino = TETROMINOES[Shown'.tetrominoType]
                 /\ LET L == Locked
                        F == FullRows(L)
                    IN  \E R \in SUBSET F :
                           /\ (F # {} => R # {})
                           /\ Shown'.score = score +
                                 <<0, 100, 300, 500, 800>>[Cardinality(R) + 1]
                           /\ Shown'.board = WithoutRows(L, R)
         ]_vars

\* C15: the tick interval is always within [100, 800].  It changes only on a
\* lock that clears at least one row, where it becomes max(100, previous - 10)
\* whatever the number of rows, and on reset, where it becomes 800; a lock
\* that clears no row leaves it unchanged.
C15_SpeedBounds ==
    [][/\ speed \in MIN_SPEED..INITIAL_SPEED
       /\ Shown'.speed \in MIN_SPEED..INITIAL_SPEED
       /\ IF drawn' # drawn /\ resetGame THEN Shown'.speed = INITIAL_SPEED
          ELSE IF pending' # pending /\ LockStep
          THEN Shown'.speed = IF FullRows(Locked) = {} THEN speed
                              ELSE IF speed - SPEED_STEP < MIN_SPEED THEN MIN_SPEED
                              ELSE speed - SPEED_STEP
          ELSE Shown'.speed = Shown.speed
      ]_vars

\* A clearing lock has happened at the minimum interval: the score went up
\* and the interval stayed at the floor.
C15_Witness ==
    /\ drawn = 1
    /\ score > 7000
    /\ speed = MIN_SPEED

\* The origin a move key asks for from the origin pos: one column left or
\* right, or one row down.
Candidate(key, pos) ==
    CASE key = "ArrowLeft"  -> [pos EXCEPT !.x = @ - 1]
      [] key = "ArrowRight" -> [pos EXCEPT !.x = @ + 1]
      [] key = "ArrowDown"  -> [pos EXCEPT !.y = @ + 1]

\* C16: MoveLeft, MoveRight and SoftDrop never lock the piece and never change
\* the board, the score, the tick interval or the shape.  A legal move sets the
\* origin to the candidate (x by the delta, or y + 1) and nothing else; an
\* illegal move, whose candidate collides, leaves the whole state unchanged.
C16_MovesOnlyShiftOrigin ==
    [][\A key \in {"ArrowLeft", "ArrowRight", "ArrowDown"} :
          Command(key) =>
             /\ UNCHANGED <<isPaused, drawn>>
             /\ Shown' = [Shown EXCEPT !.position =
                             IF CellsFree(Candidate(key, @), Shown.tetromino,
                                          Shown.board)
                             THEN Candidate(key, @) ELSE @]
      ]_vars

\* C17: in every reachable state the board has exactly 20 rows of exactly 10
\* cells, and every cell is 0 (empty) or 1 (occupied).
C17_BoardShape ==
    /\ Len(board) = BOARD_HEIGHT
    /\ \A yy \in 1..Len(board) :
          /\ Len(board[yy]) = BOARD_WIDTH
          /\ \A xx \in 1..Len(board[yy]) : board[yy][xx] \in {0, 1}

\* The session state a key command yields when applied to the session state
\* s: the move or rotation is taken when its cells are free in s.
Applied(key, s) ==
    IF key = "ArrowUp"
    THEN [s EXCEPT !.tetromino =
            IF CellsFree(s.position, rotated(@), s.board) THEN rotated(@) ELSE @]
    ELSE [s EXCEPT !.position =
            IF CellsFree(Candidate(key, @), s.tetromino, s.board)
            THEN Candidate(key, @) ELSE @]

\* C18: ticks and commands are serialized: every event is computed from the
\* state the event before it left, so a key command delivered after a tick,
\* rendered or not, yields what the command yields when applied to the
\* state the tick left; no update is computed from a stale snapshot and no
\* update of the tick is lost.
C18_UpdatesFromLatestState ==
    [][\A key \in Keys \ {" "} :
          (pending # <<>> /\ Command(key)) => Shown' = Applied(key, Shown)
      ]_vars

\* C19: in every reachable state every set cell of the active piece lies
\* inside the grid, its column in [0,10) and its row in [0,20); the origin's
\* row is never negative, so a merge writes no cell outside the board.
C19_PieceInsideGrid ==
    /\ position.y >= 0
    /\ \A c \in PieceCells(position, tetromino) :
          /\ c[1] >= 0
          /\ c[1] < BOARD_HEIGHT
          /\ c[2] >= 0
          /\ c[2] < BOARD_WIDTH

\* No cell of the piece at pos lies on an occupied cell of b.
NoOverlap(pos, shape, b) ==
    \A c \in PieceCells(pos, shape) :
        (c[1] \in 0..(BOARD_HEIGHT - 1) /\ c[2] \in 0..(BOARD_WIDTH - 1))
            => b[c[1] + 1][c[2] + 1] = 0

\* The cells at which the boards a and b differ.
Changed(a, b) ==
    {c \in (0..(BOARD_HEIGHT - 1)) \X (0..(BOARD_WIDTH - 1)) :
        a[c[1] + 1][c[2] + 1] # b[c[1] + 1][c[2] + 1]}

\* C20: a piece that overlaps no occupied cell keeps overlapping none through
\* every move, soft drop, rotation and non-locking tick, so a piece that is
\* free when spawned is free until its lock.  The lock of such a piece (the
\* step that draws the next one, taken where the piece cannot move down)
\* merges it into the board: the merge turns exactly the piece's cells from
\* empty to occupied, as many as the mask has set cells, and is the new board
\* when no row is full.
C20_NoOverlapUntilLock ==
    /\ []((NoOverlap(position, tetromino, board) /\ ~moveDown) =>
            LET merged == mergedBoard(board, position, tetromino)
                cells == PieceCells(position, tetromino)
            IN  /\ Changed(board, merged) = cells
                /\ Cardinality(cells) = Cardinality(SetCells(tetromino))
                /\ \A c \in cells : /\ board[c[1] + 1][c[2] + 1] = 0
                                    /\ merged[c[1] + 1][c[2] + 1] = 1)
    /\ [][NoOverlap(position, tetromino, board) =>
            IF drawn' = drawn
            THEN NoOverlap(position', tetromino', board')
            ELSE LET merged == mergedBoard(board, position, tetromino)
                 IN  FullRows(merged) = {} => board' = merged
         ]_vars

====
